---- MODULE Spec2Model ----
(***************************************************************************)
(* A model of faster_whisper/tokenizer.py: the Tokenizer wrapper around a  *)
(* byte-level BPE vocabulary (tokenizers.Tokenizer).                       *)
(*                                                                         *)
(* Text is a sequence of characters, each character a one-element name:    *)
(* "a", " ", ".", the digits, "<", "|", ">", the three-byte character      *)
(* "U3041" and the replacement character "FFFD".  Tokens are integers.     *)
(* Times are integers in milliseconds (0.02 s = 20).                       *)
(***************************************************************************)
EXTENDS Integers, Sequences, FiniteSets, TLC

VARIABLES
    self,                \* the Tokenizer object, or NoTokenizer
    pc,                  \* "idle", "unicode", "spaces" or "done"
    call,                \* the call in progress or just returned
    ret,                 \* what the call returned or raised
    outputs,             \* decode_with_timestamps: its list of runs
    tokens,              \* split_tokens_on_*: the argument
    decoded_full,        \* split_tokens_on_unicode: the full decode
    words,               \* the words list being built
    word_tokens,         \* the token groups being built
    current_tokens,      \* split_tokens_on_unicode: the buffer
    unicode_offset,      \* split_tokens_on_unicode: the offset
    pos,                 \* how many loop iterations are done
    subwords,            \* split_tokens_on_spaces: the chunks' texts
    subword_tokens_list  \* split_tokens_on_spaces: the chunks' tokens

vars == <<self, pc, call, ret, outputs, tokens, decoded_full, words,
          word_tokens, current_tokens, unicode_offset, pos, subwords,
          subword_tokens_list>>

loopvars == <<tokens, decoded_full, words, word_tokens, current_tokens,
              unicode_offset, pos, subwords, subword_tokens_list>>

----------------------------------------------------------------------------
(* Bounds of the model. *)

\* longest token sequence handed to a decode or split call
MaxLen == 4
\* longest prompt string handed to encode
MaxTextLen == 3
\* longest list of Word handed to encode
MaxWords == 2
\* number of timestamp tokens of the modelled vocabulary
NumTimestamps == 2

----------------------------------------------------------------------------
(* Python values. *)

\* None where a string is expected (task, language)
NoneStr == "None"
\* None where a token id is expected (self.task, self.language)
NoneId == -1

\* raise kind(...), the message naming what
Raise(kind, what) == [raised |-> kind, value |-> what]
Return(v) == [raised |-> "none", value |-> v]
NoCall == [op |-> "none", arg |-> <<>>]
NoRet == Return(<<>>)

Min(a, b) == IF a < b THEN a ELSE b
Max(a, b) == IF a > b THEN a ELSE b

\* s[:n] of a Python sequence, a negative n counting from the end
SliceTo(s, n) ==
    LET stop == IF n < 0 THEN Max(Len(s) + n, 0) ELSE Min(n, Len(s))
    IN  SubSeq(s, 1, stop)

\* s[n:] for 0 <= n
SliceFrom(s, n) == SubSeq(s, Min(n, Len(s)) + 1, Len(s))

RECURSIVE Concat(_)
\* the concatenation of a sequence of sequences ("".join, list flattening)
Concat(ss) == IF ss = <<>> THEN <<>> ELSE Head(ss) \o Concat(Tail(ss))

\* str.startswith
StartsWith(s, p) == Len(s) >= Len(p) /\ SubSeq(s, 1, Len(p)) = p

\* p in s for strings: p is a contiguous substring of s
IsSubstring(p, s) ==
    \E k \in 0..(Len(s) - Len(p)) : SubSeq(s, k + 1, k + Len(p)) = p

Whitespace == {" "}

RECURSIVE LStrip(_)
LStrip(s) == IF s # <<>> /\ Head(s) \in Whitespace THEN LStrip(Tail(s)) ELSE s

RECURSIVE RStrip(_)
RStrip(s) ==
    IF s # <<>> /\ s[Len(s)] \in Whitespace
    THEN RStrip(SubSeq(s, 1, Len(s) - 1)) ELSE s

\* str.strip
Strip(s) == RStrip(LStrip(s))

\* string.punctuation, in its order (the double quote, the backslash and
\* the backtick by name)
Punctuation ==
    <<"!", "dquote", "#", "$", "%", "&", "'", "(", ")", "*", "+", ",", "-", ".",
      "/", ":", ";", "<", "=", ">", "?", "@", "[", "backslash", "]", "^", "_",
      "backtick", "{", "|", "}", "~">>

ReplacementChar == "FFFD"

\* str.index(c): the 0-based place of the first c, -1 standing for ValueError
IndexOf(s, c) ==
    IF \E k \in 1..Len(s) : s[k] = c
    THEN (CHOOSE k \in 1..Len(s) : s[k] = c /\ \A m \in 1..(k - 1) : s[m] # c) - 1
    ELSE -1

\* all sequences over S of length at most n
SeqsUpTo(S, n) == UNION { [1..k -> S] : k \in 0..n }

----------------------------------------------------------------------------
(* The vocabulary: tokenizers.Tokenizer, a byte-level BPE.                 *)

\* the bytes of each text token: "a", " a", ".", "...", 0xE3, 0x81, " "
TokenBytes ==
    <<  <<97>>, <<32, 97>>, <<46>>, <<46, 46, 46>>, <<227>>, <<129>>, <<32>> >>

NumTextTokens == Len(TokenBytes)
TextTokens == 0..(NumTextTokens - 1)

\* special tokens follow the text tokens, <|endoftext|> first and
\* <|notimestamps|> last, as in Whisper's vocabulary
SpecialNames ==
    << "<|endoftext|>", "<|startoftranscript|>", "<|en|>", "<|ja|>",
       "<|translate|>", "<|transcribe|>", "<|startoflm|>", "<|startofprev|>",
       "<|notimestamps|>" >>

\* tokenizer.token_to_id: None for a string that is no token
TokenToId(name) ==
    IF \E k \in 1..Len(SpecialNames) : SpecialNames[k] = name
    THEN NumTextTokens - 1 + (CHOOSE k \in 1..Len(SpecialNames) : SpecialNames[k] = name)
    ELSE NoneId

Chr(b) == CASE b = 97 -> "a" [] b = 32 -> " " [] b = 46 -> "." [] OTHER -> ReplacementChar
Ord(c) == CASE c = "a" -> 97 [] c = " " -> 32 [] c = "." -> 46 [] OTHER -> 63

IsContinuation(b) == b >= 128 /\ b <= 191

RECURSIVE Utf8Lossy(_)
\* UTF-8 decoding that replaces each maximal ill-formed subsequence by one
\* replacement character (String::from_utf8_lossy, errors="replace")
Utf8Lossy(bytes) ==
    IF bytes = <<>> THEN <<>>
    ELSE LET b == Head(bytes)
             n == Len(bytes)
         IN  IF b < 128 THEN <<Chr(b)>> \o Utf8Lossy(Tail(bytes))
             ELSE IF b = 227 /\ n >= 3 /\ IsContinuation(bytes[2]) /\ IsContinuation(bytes[3])
                  THEN <<"U3041">> \o Utf8Lossy(SliceFrom(bytes, 3))
             ELSE IF b = 227 /\ n >= 2 /\ IsContinuation(bytes[2])
                  THEN <<ReplacementChar>> \o Utf8Lossy(SliceFrom(bytes, 2))
             ELSE <<ReplacementChar>> \o Utf8Lossy(Tail(bytes))

RECURSIVE BytesOf(_)
\* the bytes of a token list; special tokens are skipped by the decoder
BytesOf(ids) ==
    IF ids = <<>> THEN <<>>
    ELSE (IF Head(ids) \in TextTokens THEN TokenBytes[Head(ids) + 1] ELSE <<>>)
         \o BytesOf(Tail(ids))

\* tokenizer.decode(ids)
AdapterDecode(ids) == Utf8Lossy(BytesOf(ids))

\* the text tokens whose bytes start the byte string
Matches(bytes) == { t \in TextTokens : StartsWith(bytes, TokenBytes[t + 1]) }

RECURSIVE EncodeBytes(_)
\* longest-match tokenisation of a byte string
EncodeBytes(bytes) ==
    IF bytes = <<>> \/ Matches(bytes) = {} THEN <<>>
    ELSE LET t == CHOOSE t \in Matches(bytes) :
                      \A u \in Matches(bytes) : Len(TokenBytes[u + 1]) <= Len(TokenBytes[t + 1])
         IN  <<t>> \o EncodeBytes(SliceFrom(bytes, Len(TokenBytes[t + 1])))

\* tokenizer.encode(text, add_special_tokens=False).ids
AdapterEncode(text) == EncodeBytes([k \in 1..Len(text) |-> Ord(text[k])])

----------------------------------------------------------------------------
(* Module data. *)

_TASKS == {"transcribe", "translate"}

_LANGUAGE_CODES ==
    {"af", "am", "ar", "as", "az", "ba", "be", "bg", "bn", "bo", "br", "bs",
     "ca", "cs", "cy", "da", "de", "el", "en", "es", "et", "eu", "fa", "fi",
     "fo", "fr", "gl", "gu", "ha", "haw", "he", "hi", "hr", "ht", "hu", "hy",
     "id", "is", "it", "ja", "jw", "ka", "kk", "km", "kn", "ko", "la", "lb",
     "ln", "lo", "lt", "lv", "mg", "mi", "mk", "ml", "mn", "mr", "ms", "mt",
     "my", "ne", "nl", "nn", "no", "oc", "pa", "pl", "ps", "pt", "ro", "ru",
     "sa", "sd", "si", "sk", "sl", "sn", "so", "sq", "sr", "su", "sv", "sw",
     "ta", "te", "tg", "th", "tk", "tl", "tr", "tt", "uk", "ur", "uz", "vi",
     "yi", "yo", "zh", "yue"}

\* the languages written without spaces
NoSpaceLanguages == {"zh", "ja", "th", "lo", "my", "yue"}

DefaultMaxLength == 448

----------------------------------------------------------------------------
(* class Tokenizer *)

NoTokenizer ==
    [alive |-> FALSE, without_timestamps |-> FALSE, max_length |-> 0,
     task |-> NoneId, language |-> NoneId, language_code |-> NoneStr]

\* __init__ that falls back to "en" for a language it does not know
NewTokenizerDefaultLanguage(multilingual, task, language, without_timestamps, max_length) ==
    IF multilingual /\ task \notin _TASKS
    THEN Raise("ValueError", <<"task", task>>)
    ELSE LET lang == IF multilingual /\ language \in _LANGUAGE_CODES
                     THEN language ELSE "en"
         IN  Return([alive |-> TRUE,
                     without_timestamps |-> without_timestamps,
                     max_length |-> max_length,
                     task |-> IF multilingual THEN TokenToId("<|" \o task \o "|>") ELSE NoneId,
                     language |-> IF multilingual THEN TokenToId("<|" \o lang \o "|>") ELSE NoneId,
                     language_code |-> lang])

\* Tokenizer.__init__: the object, or the ValueError naming the bad argument
NewTokenizer(multilingual, task, language, without_timestamps, max_length) ==
    IF multilingual
    THEN IF task \notin _TASKS
         THEN Raise("ValueError", <<"task", task>>)
         ELSE IF language \notin _LANGUAGE_CODES
         THEN Raise("ValueError", <<"language", language>>)
         ELSE Return([alive |-> TRUE,
                      without_timestamps |-> without_timestamps,
                      max_length |-> max_length,
                      task |-> TokenToId("<|" \o task \o "|>"),
                      language |-> TokenToId("<|" \o language \o "|>"),
                      language_code |-> language])
    ELSE Return([alive |-> TRUE,
                 without_timestamps |-> without_timestamps,
                 max_length |-> max_length,
                 task |-> NoneId,
                 language |-> NoneId,
                 language_code |-> "en"])

eot == TokenToId("<|endoftext|>")
no_timestamps == TokenToId("<|notimestamps|>")
timestamp_begin == no_timestamps + 1

Digits == <<"0", "1", "2", "3", "4", "5", "6", "7", "8", "9">>

RECURSIVE DigitsOf(_)
\* the decimal digits of a natural number
DigitsOf(n) ==
    IF n < 10 THEN <<Digits[n + 1]>>
    ELSE DigitsOf(n \div 10) \o <<Digits[(n % 10) + 1]>>

\* f"<|{x:.2f}|>" of a non-negative x given in hundredths
FormatTimestamp(h) ==
    <<"<", "|">> \o DigitsOf(h \div 100) \o <<".">>
    \o <<Digits[((h \div 10) % 10) + 1], Digits[(h % 10) + 1]>> \o <<"|", ">">>

\* round(ms / 20): to the nearest integer, a tie to the even one (the
\* quotient of two binary floats need not be an exact tie where the decimal
\* one is: TimeArgs holds no time halfway between two steps)
RoundSteps(ms) ==
    LET q == ms \div 20
        r == ms % 20
    IN  IF r < 10 THEN q
        ELSE IF r > 10 THEN q + 1
        ELSE IF q % 2 = 0 THEN q ELSE q + 1

\* timestamp_to_token with the upper end of the range left out
timestamp_to_token_exclusive(timestamp) ==
    IF timestamp < 0 \/ timestamp >= 30000
    THEN Raise("ValueError", <<"Timestamp must be between 0 and 30">>)
    ELSE Return(FormatTimestamp(RoundSteps(timestamp) * 2))

\* Tokenizer.timestamp_to_token, the timestamp in milliseconds
timestamp_to_token(timestamp) ==
    IF timestamp < 0 \/ timestamp > 30000
    THEN Raise("ValueError", <<"Timestamp must be between 0 and 30">>)
    ELSE Return(FormatTimestamp(RoundSteps(timestamp) * 2))

\* the truncation of encode, cutting only a list longer than max_length // 2
TruncatePrefixIfLonger(prefix_tokens, max_length) ==
    IF Len(prefix_tokens) > max_length \div 2
    THEN SliceTo(prefix_tokens, max_length \div 2 - 1)
    ELSE prefix_tokens

\* encode: if len(prefix_tokens) >= max_length // 2: prefix_tokens = prefix_tokens[: ...]
TruncatePrefix(prefix_tokens, max_length) ==
    IF Len(prefix_tokens) >= max_length \div 2
    THEN SliceTo(prefix_tokens, max_length \div 2 - 1)
    ELSE prefix_tokens

\* encode of a string that does not strip it
encode_str_unstripped(s, text) ==
    LET prefix_tokens == TruncatePrefix(AdapterEncode(<<" ">> \o text), s.max_length)
    IN  Return(IF ~s.without_timestamps
               THEN <<timestamp_begin>> \o prefix_tokens
               ELSE prefix_tokens)

\* Tokenizer.encode, the isinstance(text, str) branch
encode_str(s, text) ==
    LET prefix_tokens == TruncatePrefix(AdapterEncode(<<" ">> \o Strip(text)), s.max_length)
    IN  Return(IF ~s.without_timestamps
               THEN <<timestamp_begin>> \o prefix_tokens
               ELSE prefix_tokens)

\* map(func, *iterables), func a function: a TypeError without an iterable
PyMap(func, iterables) ==
    IF iterables = <<>>
    THEN Raise("TypeError", <<"map() must have at least two arguments.">>)
    ELSE Return([k \in 1..Len(iterables[1]) |-> func[iterables[1][k]]])

RECURSIVE Join(_, _)
\* sep.join(strs)
Join(sep, strs) ==
    IF strs = <<>> THEN <<>>
    ELSE IF Len(strs) = 1 THEN strs[1]
    ELSE strs[1] \o sep \o Join(sep, Tail(strs))

\* Tokenizer.encode_with_timestamps: the words are never handed to map
encode_with_timestamps(s, ws) ==
    LET encode_words ==
            [word \in {ws[k] : k \in 1..Len(ws)} |->
                timestamp_to_token(word.start).value \o word.word
                \o timestamp_to_token(word.end).value]
        mapped == PyMap(encode_words, <<>>)
    IN  IF mapped.raised # "none" THEN mapped
        ELSE IF s.language_code \in NoSpaceLanguages
        THEN Return(Join(<<>>, mapped.value))
        ELSE Return(Join(<<" ">>, mapped.value))

\* Tokenizer.encode_without_timestamps
encode_without_timestamps(s, ws) ==
    LET encode_words == [word \in {ws[k] : k \in 1..Len(ws)} |-> word.word]
        mapped == PyMap(encode_words, <<>>)
    IN  IF mapped.raised # "none" THEN mapped
        ELSE IF s.language_code \in NoSpaceLanguages
        THEN Return(Join(<<>>, mapped.value))
        ELSE Return(Join(<<" ">>, mapped.value))

\* Tokenizer.encode; text is [kind |-> "str" | "list" | "other", v |-> ...]
encode(s, text) ==
    IF text.kind = "str" THEN encode_str(s, text.v)
    ELSE IF text.kind = "list"
    THEN IF s.without_timestamps
         THEN encode_without_timestamps(s, text.v)
         ELSE encode_with_timestamps(s, text.v)
    ELSE Raise("ValueError", <<"Text must be a string or a list of words">>)

\* a run of decode_with_timestamps' outputs: a literal or a list of tokens
StrRun(chars) == [is_str |-> TRUE, s |-> chars, toks |-> <<>>]
TokRun(ids) == [is_str |-> FALSE, s |-> <<>>, toks |-> ids]

\* the loop body with the first timestamp token taken for text
OutputsStepAbove(outs, token) ==
    IF token > timestamp_begin
    THEN outs \o <<StrRun(FormatTimestamp((token - timestamp_begin) * 2)), TokRun(<<>>)>>
    ELSE [outs EXCEPT ![Len(outs)].toks = @ \o <<token>>]

\* decode_with_timestamps: the body of its loop
OutputsStep(outs, token) ==
    IF token >= timestamp_begin
    THEN outs \o <<StrRun(FormatTimestamp((token - timestamp_begin) * 2)), TokRun(<<>>)>>
    ELSE [outs EXCEPT ![Len(outs)].toks = @ \o <<token>>]

RECURSIVE Outputs(_)
\* decode_with_timestamps: outputs after the loop
Outputs(toks) ==
    IF toks = <<>> THEN <<TokRun(<<>>)>>
    ELSE OutputsStep(Outputs(SubSeq(toks, 1, Len(toks) - 1)), toks[Len(toks)])

\* decode_with_timestamps: the join of the rendered runs
RenderOutputs(outs) ==
    Concat([k \in 1..Len(outs) |->
               IF outs[k].is_str THEN outs[k].s ELSE AdapterDecode(outs[k].toks)])

\* Tokenizer.decode_with_timestamps
decode_with_timestamps(toks) == RenderOutputs(Outputs(toks))

----------------------------------------------------------------------------
(* The word aligner. *)

\* the test of line 194 turned around: flush only a buffer whose replacement
\* character the full decode does not have
BufferCompleteInverted(decoded, offset, full) ==
    LET found == IndexOf(decoded, ReplacementChar)
        replacement_char_index == found + offset
    IN  found = -1
        \/ ~(replacement_char_index < Len(full)
             /\ full[replacement_char_index + 1] = ReplacementChar)

\* split_tokens_on_unicode: whether the buffer is flushed (lines 188-197)
BufferComplete(decoded, offset, full) ==
    LET found == IndexOf(decoded, ReplacementChar)
        replacement_char_index == found + offset
    IN  found = -1
        \/ (replacement_char_index < Len(full)
            /\ full[replacement_char_index + 1] = ReplacementChar)

\* the loop body appending the buffer to word_tokens after it is emptied
UnicodeBodyLateAppend(st, token, full) ==
    LET buffer == st.current_tokens \o <<token>>
        decoded == decode_with_timestamps(buffer)
    IN  IF BufferComplete(decoded, st.unicode_offset, full)
        THEN [words |-> Append(st.words, decoded),
              word_tokens |-> Append(st.word_tokens, <<>>),
              current_tokens |-> <<>>,
              unicode_offset |-> st.unicode_offset + Len(decoded)]
        ELSE [st EXCEPT !.current_tokens = buffer]

\* split_tokens_on_unicode: the body of its loop, st the locals
UnicodeBody(st, token, full) ==
    LET buffer == st.current_tokens \o <<token>>
        decoded == decode_with_timestamps(buffer)
    IN  IF BufferComplete(decoded, st.unicode_offset, full)
        THEN [words |-> Append(st.words, decoded),
              word_tokens |-> Append(st.word_tokens, buffer),
              current_tokens |-> <<>>,
              unicode_offset |-> st.unicode_offset + Len(decoded)]
        ELSE [st EXCEPT !.current_tokens = buffer]

\* split_tokens_on_spaces: whether the chunk starts a word (lines 213-216)
StartsWord(subword, subword_tokens, nwords) ==
    LET special == subword_tokens[1] >= eot
        with_space == StartsWith(subword, <<" ">>)
        punctuation == IsSubstring(Strip(subword), Punctuation)
    IN  special \/ with_space \/ punctuation \/ nwords = 0

\* split_tokens_on_spaces: the body of its loop, st the locals
SpacesBody(st, subword, subword_tokens) ==
    IF StartsWord(subword, subword_tokens, Len(st.words))
    THEN [words |-> Append(st.words, subword),
          word_tokens |-> Append(st.word_tokens, subword_tokens)]
    ELSE [words |-> [st.words EXCEPT ![Len(st.words)] = @ \o subword],
          word_tokens |-> [st.word_tokens EXCEPT ![Len(st.word_tokens)] = @ \o subword_tokens]]

\* split_to_word_tokens: which splitter the language selects
UsesUnicodeOnly(s) == s.language_code \in NoSpaceLanguages

----------------------------------------------------------------------------
(* The inputs of the calls. *)

\* constructor arguments
TaskArgs == {"transcribe", "translate", "summarize", NoneStr}
LanguageArgs == {"en", "ja", "xx", NoneStr}
MaxLengthArgs == {1, 4, 5, DefaultMaxLength}

\* timestamps in milliseconds, around both ends of the range
TimeArgs == {-1, 0, 1, 19, 20, 29999, 30000, 30001}

\* prompt strings
TextChars == {"a", " ", "."}
TextArgs == SeqsUpTo(TextChars, MaxTextLen)

\* lists of Word
WordArgs ==
    [start : {0, 20}, end : {0, 20}, word : {<<"a">>, <<".">>}, probability : {1}]
WordListArgs == SeqsUpTo(WordArgs, MaxWords)

\* token sequences to decode
DecodeTokens == {0, 4, eot} \cup (timestamp_begin..(timestamp_begin + NumTimestamps - 1))
DecodeArgs == SeqsUpTo(DecodeTokens, MaxLen)

\* token sequences to split: the text tokens, a control token and a timestamp
SplitTokens == TextTokens \cup {eot, timestamp_begin}
SplitArgs == SeqsUpTo(SplitTokens, MaxLen)

----------------------------------------------------------------------------
(* The calls. *)

LoopInit ==
    /\ tokens = <<>>
    /\ decoded_full = <<>>
    /\ words = <<>>
    /\ word_tokens = <<>>
    /\ current_tokens = <<>>
    /\ unicode_offset = 0
    /\ pos = 0
    /\ subwords = <<>>
    /\ subword_tokens_list = <<>>

Init ==
    /\ self = NoTokenizer
    /\ pc = "idle"
    /\ call = NoCall
    /\ ret = NoRet
    /\ outputs = <<>>
    /\ LoopInit

\* Tokenizer(tokenizer, multilingual, task, language, without_timestamps, max_length)
Construct ==
    /\ pc = "idle"
    /\ ~self.alive
    /\ \E multilingual \in BOOLEAN, task \in TaskArgs, language \in LanguageArgs,
          without_timestamps \in BOOLEAN, max_length \in MaxLengthArgs :
          LET r == NewTokenizer(multilingual, task, language, without_timestamps, max_length)
          IN  /\ call' = [op |-> "__init__",
                          arg |-> [multilingual |-> multilingual, task |-> task,
                                   language |-> language]]
              /\ self' = IF r.raised = "none" THEN r.value ELSE self
              /\ ret' = IF r.raised = "none" THEN NoRet ELSE r
    /\ pc' = "done"
    /\ UNCHANGED <<outputs, loopvars>>

\* self.timestamp_to_token(timestamp)
TimestampToToken ==
    /\ pc = "idle"
    /\ self.alive
    /\ \E timestamp \in TimeArgs :
          /\ call' = [op |-> "timestamp_to_token", arg |-> timestamp]
          /\ ret' = timestamp_to_token(timestamp)
    /\ pc' = "done"
    /\ UNCHANGED <<self, outputs, loopvars>>

\* self.encode(text) for a string
EncodeStr ==
    /\ pc = "idle"
    /\ self.alive
    /\ \E text \in TextArgs :
          /\ call' = [op |-> "encode_str", arg |-> text]
          /\ ret' = encode(self, [kind |-> "str", v |-> text])
    /\ pc' = "done"
    /\ UNCHANGED <<self, outputs, loopvars>>

\* self.encode(text) for a list of Word
EncodeWords ==
    /\ pc = "idle"
    /\ self.alive
    /\ \E ws \in WordListArgs :
          /\ call' = [op |-> "encode_words", arg |-> ws]
          /\ ret' = encode(self, [kind |-> "list", v |-> ws])
    /\ pc' = "done"
    /\ UNCHANGED <<self, outputs, loopvars>>

\* self.encode(text) for anything else
EncodeOther ==
    /\ pc = "idle"
    /\ self.alive
    /\ call' = [op |-> "encode_other", arg |-> <<>>]
    /\ ret' = encode(self, [kind |-> "other", v |-> <<>>])
    /\ pc' = "done"
    /\ UNCHANGED <<self, outputs, loopvars>>

\* self.decode_with_timestamps(tokens)
DecodeWithTimestamps ==
    /\ pc = "idle"
    /\ self.alive
    /\ \E toks \in DecodeArgs :
          /\ call' = [op |-> "decode_with_timestamps", arg |-> toks]
          /\ outputs' = Outputs(toks)
          /\ ret' = Return(decode_with_timestamps(toks))
    /\ pc' = "done"
    /\ UNCHANGED <<self, loopvars>>

\* the caller takes the result; the call's locals are gone
ReturnToCaller ==
    /\ pc = "done"
    /\ pc' = "idle"
    /\ call' = NoCall
    /\ ret' = NoRet
    /\ outputs' = <<>>
    /\ tokens' = <<>>
    /\ decoded_full' = <<>>
    /\ words' = <<>>
    /\ word_tokens' = <<>>
    /\ current_tokens' = <<>>
    /\ unicode_offset' = 0
    /\ pos' = 0
    /\ subwords' = <<>>
    /\ subword_tokens_list' = <<>>
    /\ UNCHANGED self

Next ==
    \/ Construct
    \/ TimestampToToken
    \/ EncodeStr
    \/ EncodeWords
    \/ EncodeOther
    \/ DecodeWithTimestamps
    \/ ReturnToCaller

\* construction and the sequence codec
Spec == Init /\ [][Next]_vars

----------------------------------------------------------------------------
(* The word aligner's calls, on a constructed tokenizer. *)

SplitInit ==
    /\ self \in { NewTokenizer(TRUE, "transcribe", l, FALSE, DefaultMaxLength).value :
                    l \in {"en", "ja"} }
    /\ pc = "idle"
    /\ call = NoCall
    /\ ret = NoRet
    /\ outputs = <<>>
    /\ LoopInit

\* the first lines of split_tokens_on_unicode (176-182)
EnterUnicode(op, toks) ==
    /\ call' = [op |-> op, arg |-> toks]
    /\ tokens' = toks
    /\ decoded_full' = decode_with_timestamps(toks)
    /\ words' = <<>>
    /\ word_tokens' = <<>>
    /\ current_tokens' = <<>>
    /\ unicode_offset' = 0
    /\ pos' = 0
    /\ pc' = "unicode"
    /\ UNCHANGED <<self, ret, outputs, subwords, subword_tokens_list>>

\* self.split_to_word_tokens(tokens)
CallSplitToWordTokens ==
    /\ pc = "idle"
    /\ \E toks \in SplitArgs : EnterUnicode("split_to_word_tokens", toks)

\* self.split_tokens_on_spaces(tokens)
CallSplitTokensOnSpaces ==
    /\ pc = "idle"
    /\ \E toks \in SplitArgs : EnterUnicode("split_tokens_on_spaces", toks)

\* whether the running split_tokens_on_unicode was called by split_tokens_on_spaces
OnSpacesPath ==
    \/ call.op = "split_tokens_on_spaces"
    \/ (call.op = "split_to_word_tokens" /\ ~UsesUnicodeOnly(self))

\* one iteration of split_tokens_on_unicode's loop
UnicodeStep ==
    /\ pc = "unicode"
    /\ pos < Len(tokens)
    /\ LET st == UnicodeBody([words |-> words, word_tokens |-> word_tokens,
                              current_tokens |-> current_tokens,
                              unicode_offset |-> unicode_offset],
                             tokens[pos + 1], decoded_full)
       IN  /\ words' = st.words
           /\ word_tokens' = st.word_tokens
           /\ current_tokens' = st.current_tokens
           /\ unicode_offset' = st.unicode_offset
    /\ pos' = pos + 1
    /\ UNCHANGED <<self, pc, call, ret, outputs, tokens, decoded_full, subwords,
                   subword_tokens_list>>

\* split_tokens_on_unicode returns words, word_tokens to its caller
UnicodeReturn ==
    /\ pc = "unicode"
    /\ pos = Len(tokens)
    /\ IF OnSpacesPath
       THEN /\ subwords' = words
            /\ subword_tokens_list' = word_tokens
            /\ words' = <<>>
            /\ word_tokens' = <<>>
            /\ pos' = 0
            /\ pc' = "spaces"
            /\ ret' = ret
       ELSE /\ pc' = "done"
            /\ ret' = Return(<<words, word_tokens>>)
            /\ UNCHANGED <<subwords, subword_tokens_list, words, word_tokens, pos>>
    /\ UNCHANGED <<self, call, outputs, tokens, decoded_full, current_tokens,
                   unicode_offset>>

\* one iteration of split_tokens_on_spaces' loop
SpacesStep ==
    /\ pc = "spaces"
    /\ pos < Len(subwords)
    /\ LET st == SpacesBody([words |-> words, word_tokens |-> word_tokens],
                            subwords[pos + 1], subword_tokens_list[pos + 1])
       IN  /\ words' = st.words
           /\ word_tokens' = st.word_tokens
    /\ pos' = pos + 1
    /\ UNCHANGED <<self, pc, call, ret, outputs, tokens, decoded_full,
                   current_tokens, unicode_offset, subwords, subword_tokens_list>>

\* split_tokens_on_spaces returns words, word_tokens
SpacesReturn ==
    /\ pc = "spaces"
    /\ pos = Len(subwords)
    /\ pc' = "done"
    /\ ret' = Return(<<words, word_tokens>>)
    /\ UNCHANGED <<self, call, outputs, loopvars>>

SplitNext ==
    \/ CallSplitToWordTokens
    \/ CallSplitTokensOnSpaces
    \/ UnicodeStep
    \/ UnicodeReturn
    \/ SpacesStep
    \/ SpacesReturn
    \/ ReturnToCaller

\* the word aligner
SplitSpec == SplitInit /\ [][SplitNext]_vars

----------------------------------------------------------------------------
(* The claims. *)

SplitOps == {"split_to_word_tokens", "split_tokens_on_spaces"}

\* C1: the token groups split_to_word_tokens returns, concatenated in order,
\* are the input sequence: nothing dropped, duplicated or reordered.
C1_Coverage ==
    (pc = "done" /\ call.op = "split_to_word_tokens")
        => Concat(ret.value[2]) = call.arg

\* C2: encode of a list of valid words completes and returns the adapter's
\* encoding of the words' renderings (timestamp literals around the text when
\* timestamps are enabled), joined by a space, or by nothing in the languages
\* written without spaces.
C2_EncodeWords ==
    (/\ pc = "done"
     /\ call.op = "encode_words"
     /\ \A k \in 1..Len(call.arg) :
           /\ 0 <= call.arg[k].start
           /\ call.arg[k].start <= call.arg[k].end
           /\ call.arg[k].end <= 30000)
        => LET rendering(w) ==
                   IF self.without_timestamps THEN w.word
                   ELSE timestamp_to_token(w.start).value \o w.word
                        \o timestamp_to_token(w.end).value
               sep == IF self.language_code \in NoSpaceLanguages THEN <<>> ELSE <<" ">>
               joined == Join(sep, [k \in 1..Len(call.arg) |-> rendering(call.arg[k])])
           IN  /\ ret.raised = "none"
               /\ ret.value = AdapterEncode(joined)

\* C3: in split_tokens_on_spaces a chunk starts a new word exactly when its
\* first token is >= end-of-text, or its text starts with a space, or its
\* stripped text consists of punctuation characters only (of any length), or
\* it is the first chunk; otherwise it is joined to the preceding word.
C3_StartsWordRule ==
    [][(pc = "spaces" /\ pos' = pos + 1) =>
        LET subword == subwords[pos + 1]
            subword_tokens == subword_tokens_list[pos + 1]
            stripped == Strip(subword)
            all_punctuation ==
                /\ stripped # <<>>
                /\ \A k \in 1..Len(stripped) :
                      \E m \in 1..Len(Punctuation) : Punctuation[m] = stripped[k]
            starts == \/ subword_tokens[1] >= eot
                      \/ (subword # <<>> /\ subword[1] = " ")
                      \/ all_punctuation
                      \/ pos = 0
        IN  IF starts
            THEN /\ words' = words \o <<subword>>
                 /\ word_tokens' = word_tokens \o <<subword_tokens>>
            ELSE /\ Len(words') = Len(words)
                 /\ words'[Len(words)] = words[Len(words)] \o subword
                 /\ word_tokens'[Len(words)] = word_tokens[Len(words)] \o subword_tokens
                 /\ \A k \in 1..(Len(words) - 1) :
                       words'[k] = words[k] /\ word_tokens'[k] = word_tokens[k]
      ]_vars

\* the text tokens of an encode result: the result without the marker that
\* is prepended when timestamps are enabled
TextTokensOf(result) == IF self.without_timestamps THEN result ELSE Tail(result)

\* C4, as claimed: for a string (and a max_length of at least 2) encode cuts
\* the adapter's token list to its first max_length // 2 - 1 tokens exactly
\* when the list is longer than max_length // 2; a list of at most
\* max_length // 2 tokens is kept whole.
C4_TruncateIffLonger ==
    (pc = "done" /\ call.op = "encode_str" /\ self.max_length >= 2)
        => LET enc == AdapterEncode(<<" ">> \o Strip(call.arg))
               half == self.max_length \div 2
           IN  /\ Len(enc) > half => TextTokensOf(ret.value) = SubSeq(enc, 1, half - 1)
               /\ Len(enc) <= half => TextTokensOf(ret.value) = enc

\* C4, amended: encode cuts the adapter's token list exactly when the list
\* has at least max_length // 2 tokens, to its first max_length // 2 - 1
\* tokens (for a max_length below 2, to all but its last token); a shorter
\* list is kept whole.  The text tokens returned are a prefix of the
\* adapter's encoding.
C4_TruncateIffAtLeast ==
    (pc = "done" /\ call.op = "encode_str")
        => LET enc == AdapterEncode(<<" ">> \o Strip(call.arg))
               half == self.max_length \div 2
               text == TextTokensOf(ret.value)
           IN  /\ ret.raised = "none"
               /\ (Len(enc) >= half /\ half >= 1) => text = SubSeq(enc, 1, half - 1)
               /\ (Len(enc) >= half /\ half < 1) => text = SubSeq(enc, 1, Len(enc) - 1)
               /\ Len(enc) < half => text = enc
               /\ Len(text) <= Len(enc)
               /\ text = SubSeq(enc, 1, Len(text))

\* C4: a list of exactly max_length // 2 tokens has been cut
C4_Witness ==
    /\ pc = "done"
    /\ call.op = "encode_str"
    /\ self.max_length \div 2 >= 2
    /\ Len(AdapterEncode(<<" ">> \o Strip(call.arg))) = self.max_length \div 2
    /\ Len(TextTokensOf(ret.value)) = self.max_length \div 2 - 1

\* C5, as claimed: with timestamps enabled, encode of a string that is empty
\* after stripping returns exactly [timestamp_begin].
C5_EmptyGivesOnlyMarker ==
    (/\ pc = "done"
     /\ call.op = "encode_str"
     /\ ~self.without_timestamps
     /\ Strip(call.arg) = <<>>)
        => ret.value = <<timestamp_begin>>

\* C5, amended: with timestamps enabled, encode of a string that is empty
\* after stripping returns timestamp_begin followed by the adapter's encoding
\* of the single space encode puts before the text; it is [timestamp_begin]
\* alone only when max_length // 2 <= 1, where the truncation removes that
\* encoding.
C5_EmptyGivesMarkerAndSpace ==
    (/\ pc = "done"
     /\ call.op = "encode_str"
     /\ ~self.without_timestamps
     /\ Strip(call.arg) = <<>>)
        => /\ ret.raised = "none"
           /\ ret.value = IF self.max_length \div 2 <= 1
                          THEN <<timestamp_begin>>
                          ELSE <<timestamp_begin>> \o AdapterEncode(<<" ">>)

\* C5: a string of spaces has been encoded to the marker and the space token
C5_Witness ==
    /\ pc = "done"
    /\ call.op = "encode_str"
    /\ ~self.without_timestamps
    /\ call.arg # <<>>
    /\ Strip(call.arg) = <<>>
    /\ Len(ret.value) = 2

\* C6: timestamp_to_token raises for every t < 0 and every t > 30 and
\* returns no literal then; it returns a literal for every t in [0, 30],
\* both ends included.
C6_TimestampRange ==
    (pc = "done" /\ call.op = "timestamp_to_token")
        => /\ (call.arg < 0 \/ call.arg > 30000)
                => /\ ret.raised = "ValueError"
                   /\ ~StartsWith(ret.value, <<"<", "|">>)
           /\ (call.arg >= 0 /\ call.arg <= 30000)
                => /\ ret.raised = "none"
                   /\ StartsWith(ret.value, <<"<", "|">>)

\* C6: the call at the upper end of the range has returned a literal
C6_Witness ==
    /\ pc = "done"
    /\ call.op = "timestamp_to_token"
    /\ call.arg = 30000
    /\ ret.raised = "none"

\* C7: with multilingual set, construction raises whenever the task is not
\* transcribe or translate or the language is not a known code, and leaves no
\* object; without it construction never raises, the task and language ids
\* are unset and language_code is "en".
C7_Construction ==
    (pc = "done" /\ call.op = "__init__")
        => /\ (/\ call.arg.multilingual
               /\ (call.arg.task \notin _TASKS \/ call.arg.language \notin _LANGUAGE_CODES))
                => (ret.raised = "ValueError" /\ ~self.alive)
           /\ ~call.arg.multilingual
                => /\ ret.raised = "none"
                   /\ self.alive
                   /\ self.task = NoneId
                   /\ self.language = NoneId
                   /\ self.language_code = "en"

\* C7: a multilingual construction with an unknown language has raised
C7_Witness ==
    /\ pc = "done"
    /\ call.op = "__init__"
    /\ call.arg.multilingual
    /\ call.arg.task \in _TASKS
    /\ call.arg.language = "xx"
    /\ ret.raised = "ValueError"

\* C8, as claimed: after a token is appended, the buffer is kept (accumulation
\* continues) when its decode has a replacement character and the full decode
\* has one at the corresponding offset; otherwise it is flushed as one chunk
\* and the offset advances by the chunk's decoded length.
C8_KeepWhenFullHasReplacement ==
    [][(pc = "unicode" /\ pos' = pos + 1) =>
        LET buffer == current_tokens \o <<tokens[pos + 1]>>
            decoded == decode_with_timestamps(buffer)
            has_replacement == \E k \in 1..Len(decoded) : decoded[k] = ReplacementChar
            first == CHOOSE k \in 1..Len(decoded) :
                        /\ decoded[k] = ReplacementChar
                        /\ \A m \in 1..(k - 1) : decoded[m] # ReplacementChar
            at == unicode_offset + first
            full_has == at <= Len(decoded_full) /\ decoded_full[at] = ReplacementChar
        IN  IF has_replacement /\ full_has
            THEN /\ current_tokens' = buffer
                 /\ UNCHANGED <<words, word_tokens, unicode_offset>>
            ELSE /\ current_tokens' = <<>>
                 /\ words' = words \o <<decoded>>
                 /\ word_tokens' = word_tokens \o <<buffer>>
                 /\ unicode_offset' = unicode_offset + Len(decoded)
      ]_vars

\* C8, amended: after a token is appended, the buffer is flushed as one chunk,
\* and the offset advances by the chunk's decoded length, when its decode has
\* no replacement character or the full decode has a replacement character at
\* the corresponding offset; the buffer is kept (accumulation continues) when
\* its decode has a replacement character that the full decode does not have
\* at that offset.
C8_FlushWhenFullHasReplacement ==
    [][(pc = "unicode" /\ pos' = pos + 1) =>
        LET buffer == current_tokens \o <<tokens[pos + 1]>>
            decoded == decode_with_timestamps(buffer)
            has_replacement == \E k \in 1..Len(decoded) : decoded[k] = ReplacementChar
            first == CHOOSE k \in 1..Len(decoded) :
                        /\ decoded[k] = ReplacementChar
                        /\ \A m \in 1..(k - 1) : decoded[m] # ReplacementChar
            at == unicode_offset + first
            full_has == at <= Len(decoded_full) /\ decoded_full[at] = ReplacementChar
        IN  IF ~has_replacement \/ full_has
            THEN /\ current_tokens' = <<>>
                 /\ words' = words \o <<decoded>>
                 /\ word_tokens' = word_tokens \o <<buffer>>
                 /\ unicode_offset' = unicode_offset + Len(decoded)
            ELSE /\ current_tokens' = buffer
                 /\ UNCHANGED <<words, word_tokens, unicode_offset>>
      ]_vars

\* C8: a buffer holding part of a character is being accumulated after a
\* chunk was flushed, and the full decode has the whole character
C8_Witness ==
    /\ pc = "unicode"
    /\ words # <<>>
    /\ Len(current_tokens) = 2
    /\ \E k \in 1..Len(decoded_full) : decoded_full[k] = "U3041"

\* C9: decode_with_timestamps' runs alternate, from a text run to a text run:
\* each token >= timestamp_begin gives one literal run, of the value
\* (token - timestamp_begin) * 0.02, and closes the text run before it; the
\* other tokens, control tokens too, lie in order in the text runs; there are
\* as many literal runs as tokens >= timestamp_begin and one more text run;
\* the result is the runs rendered and joined, a text run by the adapter.
C9_Runs ==
    (pc = "done" /\ call.op = "decode_with_timestamps")
        => LET toks == call.arg
               stamps == {k \in 1..Len(toks) : toks[k] >= timestamp_begin}
               n == Cardinality(stamps)
               nth(i) == CHOOSE k \in stamps : Cardinality({m \in stamps : m < k}) = i - 1
               lo(j) == IF j = 1 THEN 0 ELSE nth(j - 1)
               hi(j) == IF j = n + 1 THEN Len(toks) + 1 ELSE nth(j)
           IN  /\ Len(outputs) = 2 * n + 1
               /\ Cardinality({k \in 1..Len(outputs) : outputs[k].is_str}) = n
               /\ \A j \in 1..(n + 1) :
                     /\ ~outputs[2 * j - 1].is_str
                     /\ outputs[2 * j - 1].toks = SubSeq(toks, lo(j) + 1, hi(j) - 1)
               /\ \A i \in 1..n :
                     /\ outputs[2 * i].is_str
                     /\ outputs[2 * i].s
                            = FormatTimestamp((toks[nth(i)] - timestamp_begin) * 2)
               /\ ret.value
                     = Concat([k \in 1..Len(outputs) |->
                                  IF outputs[k].is_str THEN outputs[k].s
                                  ELSE AdapterDecode(outputs[k].toks)])

\* C9: a sequence with two timestamps, the first timestamp token among them,
\* and a control token has been decoded
C9_Witness ==
    /\ pc = "done"
    /\ call.op = "decode_with_timestamps"
    /\ Len(outputs) = 5
    /\ \E k \in 1..Len(call.arg) : call.arg[k] = timestamp_begin
    /\ \E k \in 1..Len(call.arg) : call.arg[k] = eot

\* C10: both splitters keep words and word_tokens equally long and every
\* token group non-empty, so the chunk split_tokens_on_spaces reads has a
\* first token; an empty input gives two empty lists.
C10_GroupsNonEmpty ==
    /\ Len(words) = Len(word_tokens)
    /\ \A k \in 1..Len(word_tokens) : word_tokens[k] # <<>>
    /\ Len(subwords) = Len(subword_tokens_list)
    /\ \A k \in 1..Len(subword_tokens_list) : subword_tokens_list[k] # <<>>
    /\ (pc = "done" /\ call.op \in SplitOps)
          => /\ Len(ret.value) = 2
             /\ Len(ret.value[1]) = Len(ret.value[2])
             /\ \A k \in 1..Len(ret.value[2]) : ret.value[2][k] # <<>>
             /\ call.arg = <<>> => ret.value = << <<>>, <<>> >>

\* C10: split_tokens_on_spaces has returned several groups, one of them
\* merged from more than one chunk
C10_Witness ==
    /\ pc = "done"
    /\ call.op = "split_tokens_on_spaces"
    /\ Len(ret.value[2]) >= 2
    /\ \E k \in 1..Len(ret.value[2]) : Len(ret.value[2][k]) >= 2
    /\ Len(subwords) = 3

====
